---- MODULE Spec2Model ----
(***************************************************************************)
(* Rear-window defogger controller (Subaru auto rotational idle).          *)
(*                                                                         *)
(* Two sibling sketches share one control loop and differ in the feedback  *)
(* filter only:                                                            *)
(*   "hysteresis" : src/Auto_Rotational_Idle.ino (analog feedback, dual    *)
(*                  threshold, 1 s OFF confirmation)                       *)
(*   "plain"      : src/unnamed/part_000 (digital feedback, 100 ms         *)
(*                  stability window)                                      *)
(* One step of the model is one execution of loop(), including its         *)
(* trailing delay(10) (and delay(settleDelayMs) when a press ends).        *)
(* The sensors are free inputs: every cycle reads any feedback, neutral    *)
(* and clutch sample.                                                      *)
(***************************************************************************)
EXTENDS Integers, FiniteSets, Sequences, TLC

\* ---------------------------------------------------------------- constants
pressDurationMs == 1000
settleDelayMs == 100
feedbackStableMs == 100
deactivateWindowMs == 4000
manualLockoutMs == 3000
neutralHoldMs == 3000
clutchHoldMs == 1500
neutralThreshold == 512
feedbackHighThreshold == 900
feedbackLowThreshold == 100
feedbackOffDelayMs == 1000
loopDelayMs == 10

\* ------------------------------------------------------------------- bounds
\* Spec runs loop() every Tick or 2 * Tick ms, the last time at MaxNow (hold
\* timers, filter, pulse); SpecLong runs it every LongTick ms, the last time
\* at LongMaxNow (three ON pulses, deactivation and the whole lockout);
\* SpecFine runs it every FineTick ms, the last time at FineMaxNow (several
\* cycles inside one feedbackStableMs window); SpecPulse runs it every
\* PulseTick ms, the last time at PulseMaxNow (cycles that fall strictly
\* inside a press and inside the OFF confirmation that follows it).
Tick == 500
MaxNow == 4500
LongTick == 1000
LongMaxNow == 11000
FineTick == 50
FineMaxNow == 300
PulseTick == 400
PulseMaxNow == 2000

\* -------------------------------------------------------- unsigned long math
\* Timestamps are unsigned long (32 bits).  The model's clock stays below
\* LongMaxNow + manualLockoutMs, far from 2^32, so a sum never wraps.  A
\* difference a - b with a < b wraps to 2^32 - (b - a); TLC's integers are
\* 32-bit signed, so that value is represented by 2^31 - 1 - (b - a), which
\* compares the same way against every threshold of the program.
WrappedTop == 2147483647
Sub32(a, b) == IF a >= b THEN a - b ELSE WrappedTop - (b - a)

\* -------------------------------------------------------------- input ranges
FeedbackRawVals ==
  { feedbackLowThreshold - 1, feedbackLowThreshold,
    feedbackHighThreshold, feedbackHighThreshold + 1 }
NeutralRawVals == { neutralThreshold, neutralThreshold + 1 }
PinLevels == { "LOW", "HIGH" }
Steps == { Tick, 2 * Tick }
LongSteps == { LongTick }
FineSteps == { FineTick }
PulseSteps == { PulseTick }
\* Times at which the oscillation guard alone is exercised (SpecGuard).
GuardTimes ==
  { 0, 1, pressDurationMs, deactivateWindowMs - 500, deactivateWindowMs,
    deactivateWindowMs + 1, deactivateWindowMs + 500,
    2 * deactivateWindowMs }
None == 0 - 1

VARIABLES
  strategy,            \* which sketch is flashed
  clock,               \* what millis() returns to the next loop()
  now,                 \* what millis() returned to the last loop()
  systemActive, isPressing, pressStartMs,
  feedbackLowStart, feedbackState,
  feedbackChangeTime, lastFeedback,
  lastManualFeedback, ignoreManualUntil,
  triggerOnCount, firstTriggerOnTime,
  wasNeutral, neutralStartMs,
  wasClutchReleased, clutchStartMs,
  defrostOut,
  \* the locals and branches of the last loop()
  val, feedbackActive, feedbackStable,
  neutralEngaged, clutchReleased,
  neutralHeldLongEnough, clutchHeldLongEnough,
  triggerSwitch, isTriggerOn,
  manualEdge,          \* !lastManualFeedback && feedback held
  offCancelled,        \* the filter cancelled a pending OFF timer
  shouldDeactivate,    \* the guard deactivated the system
  settleRead,          \* the pin level read after delay(settleDelayMs), or
                       \* "NONE" when the cycle took no such read
  \* history, read by the properties only
  neutralSince,        \* first cycle of the unbroken run of neutral samples
  clutchSince,         \* first cycle of the unbroken run of released samples
  lowSince,            \* first cycle of the unbroken run of low samples
                       \* taken while the filtered feedback was ON
  deactivatedAt,       \* cycle of the last guard deactivation
  offPulseInMotion,    \* the last pulse begun was an OFF pulse and every
                       \* cycle since sampled the vehicle in motion
  onTimes              \* ON-intents recorded since the guard was empty

vars ==
  << strategy, clock, now, systemActive, isPressing, pressStartMs,
     feedbackLowStart, feedbackState, feedbackChangeTime, lastFeedback,
     lastManualFeedback, ignoreManualUntil, triggerOnCount,
     firstTriggerOnTime, wasNeutral, neutralStartMs, wasClutchReleased,
     clutchStartMs, defrostOut, val, feedbackActive, feedbackStable,
     neutralEngaged, clutchReleased, neutralHeldLongEnough,
     clutchHeldLongEnough, triggerSwitch, isTriggerOn, manualEdge,
     offCancelled, shouldDeactivate, settleRead, neutralSince, clutchSince,
     lowSince, deactivatedAt, offPulseInMotion, onTimes >>

\* ------------------------------------------------ updateFeedbackState (.ino)
\* Filtered state after one call, from the state before it, the raw sample v
\* and the time t of the call.
FilterOffConfirmed(fs, ls, v, t) ==
  fs /\ v < feedbackLowThreshold /\ ls # 0
     /\ Sub32(t, ls) >= feedbackOffDelayMs

\* Fast-ON taken at the threshold itself (>= for >).
FilterState_OnAtThreshold(fs, ls, v, t) ==
  IF fs
    THEN ~FilterOffConfirmed(fs, ls, v, t)
    ELSE v >= feedbackHighThreshold

FilterState(fs, ls, v, t) ==
  IF fs
    THEN ~FilterOffConfirmed(fs, ls, v, t)
    ELSE v > feedbackHighThreshold

\* The recovering sample leaves the pending OFF timer running.
FilterLowStart_NoCancel(fs, ls, v, t) ==
  IF fs /\ v < feedbackLowThreshold
    THEN IF ls = 0 THEN t
         ELSE IF Sub32(t, ls) >= feedbackOffDelayMs THEN 0 ELSE ls
    ELSE ls

FilterLowStart(fs, ls, v, t) ==
  IF fs
    THEN IF v < feedbackLowThreshold
           THEN IF ls = 0 THEN t
                ELSE IF Sub32(t, ls) >= feedbackOffDelayMs THEN 0 ELSE ls
           ELSE 0
    ELSE ls

FilterCancels(fs, ls, v) == fs /\ v >= feedbackLowThreshold /\ ls > 0

\* ------------------------------------------------------ raw input conversion
NeutralEngagedOf(neutralValue) == neutralValue > neutralThreshold
ClutchReleasedOf(level) == level = "LOW"
FeedbackActiveOf(level) == level = "HIGH"

\* ------------------------------------------------------ manual press (loop)
ManualEdge(lastManual, fb) == ~lastManual /\ fb

\* The lockout ends one comparison early (>= for >).
ManualActivate_Inclusive(sa, lastManual, fb, t, ignoreUntil) ==
  IF ManualEdge(lastManual, fb) /\ t >= ignoreUntil THEN TRUE ELSE sa

\* The press counts once the feedback is high in two cycles in a row.
ManualActivate_HeldHigh(sa, lastManual, fb, t, ignoreUntil) ==
  IF lastManual /\ fb /\ t > ignoreUntil THEN TRUE ELSE sa

ManualActivate(sa, lastManual, fb, t, ignoreUntil) ==
  IF ManualEdge(lastManual, fb) /\ t > ignoreUntil THEN TRUE ELSE sa

\* --------------------------------------------------- plain debounce (loop)
DebounceChangeTime(fb, lastFb, changeTime, t) ==
  IF fb # lastFb THEN t ELSE changeTime

\* The stability window is not waited out.
DebounceStable_NoWait(changeTime, t) == Sub32(t, changeTime) >= 0

DebounceStable(changeTime, t) == Sub32(t, changeTime) >= feedbackStableMs

\* ------------------------------------------------------- hold timers (loop)
\* A false sample does not clear the start time, and a rising edge keeps a
\* start time that is already set.
HoldStart_NoClear(cond, was, start, t) ==
  IF cond /\ ~was /\ start = 0 THEN t ELSE start

HoldStart(cond, was, start, t) ==
  IF cond THEN (IF ~was THEN t ELSE start) ELSE 0

HeldLongEnough(was, start, t, requiredMs) ==
  was /\ Sub32(t, start) >= requiredMs

\* -------------------------------------------------- trigger decision (loop)
\* The ON decision reads the feedback with the wrong polarity.
TriggerOnIntent_WrongPolarity(sa, pressing, stable, fb, heldN, heldC) ==
  sa /\ ~pressing /\ stable /\ fb /\ heldN /\ heldC

\* The ON decision is taken while a press is in flight.
TriggerOnIntent_WhilePressing(sa, pressing, stable, fb, heldN, heldC) ==
  sa /\ stable /\ ~fb /\ heldN /\ heldC

TriggerOnIntent(sa, pressing, stable, fb, heldN, heldC) ==
  sa /\ ~pressing /\ stable /\ ~fb /\ heldN /\ heldC

\* Motion needs both conditions lost (&& for ||).
TriggerOffIntent_BothLost(sa, pressing, stable, fb, ne, cr, heldN, heldC) ==
  /\ sa /\ ~pressing /\ stable
  /\ ~(~fb /\ heldN /\ heldC)
  /\ fb /\ (~ne /\ ~cr)

TriggerOffIntent(sa, pressing, stable, fb, ne, cr, heldN, heldC) ==
  /\ sa /\ ~pressing /\ stable
  /\ ~(~fb /\ heldN /\ heldC)
  /\ fb /\ (~ne \/ ~cr)

\* ------------------------------------------------- oscillation guard (loop)
GuardWindowReset(first, t) ==
  first = 0 \/ Sub32(t, first) > deactivateWindowMs

GuardCounted(isOn, count, first, t) ==
  IF isOn THEN (IF GuardWindowReset(first, t) THEN 1 ELSE count + 1)
          ELSE count

GuardDeactivates(isOn, count, first, t) ==
  isOn /\ GuardCounted(isOn, count, first, t) >= 3

GuardCount(isOn, count, first, t) ==
  IF GuardDeactivates(isOn, count, first, t) THEN 0
  ELSE GuardCounted(isOn, count, first, t)

GuardFirst(isOn, count, first, t) ==
  IF ~isOn THEN first
  ELSE IF GuardDeactivates(isOn, count, first, t) THEN 0
  ELSE IF GuardWindowReset(first, t) THEN t ELSE first

\* The deactivation does not arm the lockout.
LockoutUntil_NotArmed(deactivated, ignoreUntil, t) == ignoreUntil

\* Every cycle inside the lockout re-arms it.
LockoutUntil_Extends(deactivated, ignoreUntil, t) ==
  IF deactivated \/ (t > 0 /\ t <= ignoreUntil) THEN t + manualLockoutMs
  ELSE ignoreUntil

LockoutUntil(deactivated, ignoreUntil, t) ==
  IF deactivated THEN t + manualLockoutMs ELSE ignoreUntil

\* ------------------------------------------------------ pulse actuator (loop)
\* A press begins without a trigger decision.
PressBegins_NoTrigger(pressing, trig, sa) == ~pressing /\ sa

\* The press begins on the trigger alone, active or not.
PressBegins_Inactive(pressing, trig, sa) == ~pressing /\ trig

PressBegins(pressing, trig, sa) == ~pressing /\ trig /\ sa

\* The press ends one comparison late (> for >=).
PressEnds_Strict(pressing, start, t) ==
  pressing /\ Sub32(t, start) > pressDurationMs

PressEnds(pressing, start, t) ==
  pressing /\ Sub32(t, start) >= pressDurationMs

\* The end of a press leaves the output line alone.
OutputLevel_NoRelease(begin, end, level) ==
  IF begin THEN "HIGH" ELSE level

\* Level of defrostOut after the two digitalWrite calls of the press blocks.
OutputLevel(begin, end, level) ==
  IF end THEN "LOW" ELSE IF begin THEN "HIGH" ELSE level

\* ---------------------------------------------------------------------- Init
\* The globals as declared, setup() done (output LOW), no loop() run yet.
Boot(active) ==
  /\ clock = 0
  /\ now = 0
  /\ systemActive = active
  /\ isPressing = FALSE
  /\ pressStartMs = 0
  /\ feedbackLowStart = 0
  /\ feedbackState = FALSE
  /\ feedbackChangeTime = 0
  /\ lastFeedback = FALSE
  /\ lastManualFeedback = FALSE
  /\ ignoreManualUntil = 0
  /\ triggerOnCount = 0
  /\ firstTriggerOnTime = 0
  /\ wasNeutral = FALSE
  /\ neutralStartMs = 0
  /\ wasClutchReleased = FALSE
  /\ clutchStartMs = 0
  /\ defrostOut = "LOW"
  /\ val = 0
  /\ feedbackActive = FALSE
  /\ feedbackStable = FALSE
  /\ neutralEngaged = FALSE
  /\ clutchReleased = FALSE
  /\ neutralHeldLongEnough = FALSE
  /\ clutchHeldLongEnough = FALSE
  /\ triggerSwitch = FALSE
  /\ isTriggerOn = FALSE
  /\ manualEdge = FALSE
  /\ offCancelled = FALSE
  /\ shouldDeactivate = FALSE
  /\ settleRead = "NONE"
  /\ offPulseInMotion = FALSE
  /\ neutralSince = None
  /\ clutchSince = None
  /\ lowSince = None
  /\ deactivatedAt = None
  /\ onTimes = << >>

Init ==
  /\ strategy \in { "hysteresis", "plain" }
  /\ Boot(FALSE)

\* ------------------------------------------------------------------- loop()
\* Start of the unbroken run of cycles in which cond was sampled true.
RunSince(cond, since, t) ==
  IF cond THEN (IF since = None THEN t ELSE since) ELSE None

\* The part of loop() the two sketches share: fb is the feedback boolean the
\* sketch decides on, stable its stability gate, t the cycle's millis(), d
\* the time the cycle takes, horizon the end of the run, settle what the
\* sketch's read after the settle delay can return.
ControlCycle(t, fb, stable, neutralValue, clutchLevel, d, horizon, settle) ==
  \E ne \in { NeutralEngagedOf(neutralValue) },
     cr \in { ClutchReleasedOf(clutchLevel) },
     sa1 \in { ManualActivate(systemActive, lastManualFeedback, fb, t,
                              ignoreManualUntil) } :
  \E nst \in { HoldStart(ne, wasNeutral, neutralStartMs, t) },
     cst \in { HoldStart(cr, wasClutchReleased, clutchStartMs, t) } :
  \E heldN \in { HeldLongEnough(ne, nst, t, neutralHoldMs) },
     heldC \in { HeldLongEnough(cr, cst, t, clutchHoldMs) } :
  \E on \in { TriggerOnIntent(sa1, isPressing, stable, fb, heldN, heldC) },
     off \in { TriggerOffIntent(sa1, isPressing, stable, fb, ne, cr,
                                heldN, heldC) } :
  \E trig \in { on \/ off },
     deact \in { GuardDeactivates(on, triggerOnCount, firstTriggerOnTime,
                                  t) } :
  \E sa2 \in { IF deact THEN FALSE ELSE sa1 } :
  \E begin \in { PressBegins(isPressing, trig, sa2) } :
  \E pr1 \in { isPressing \/ begin },
     ps1 \in { IF begin THEN t ELSE pressStartMs } :
  \E end \in { PressEnds(pr1, ps1, t) } :
      /\ d >= loopDelayMs + (IF end THEN settleDelayMs ELSE 0)
      /\ t <= horizon
      /\ clock' = clock + d
      /\ now' = t
      /\ manualEdge' = ManualEdge(lastManualFeedback, fb)
      /\ lastManualFeedback' = fb
      /\ neutralEngaged' = ne
      /\ clutchReleased' = cr
      /\ wasNeutral' = ne
      /\ neutralStartMs' = nst
      /\ wasClutchReleased' = cr
      /\ clutchStartMs' = cst
      /\ neutralHeldLongEnough' = heldN
      /\ clutchHeldLongEnough' = heldC
      /\ triggerSwitch' = trig
      /\ isTriggerOn' = on
      /\ triggerOnCount' =
           GuardCount(on, triggerOnCount, firstTriggerOnTime, t)
      /\ firstTriggerOnTime' =
           GuardFirst(on, triggerOnCount, firstTriggerOnTime, t)
      /\ ignoreManualUntil' = LockoutUntil(deact, ignoreManualUntil, t)
      /\ shouldDeactivate' = deact
      /\ systemActive' = sa2
      /\ isPressing' = (pr1 /\ ~end)
      /\ pressStartMs' = ps1
      /\ defrostOut' = OutputLevel(begin, end, defrostOut)
      /\ settleRead' \in (IF end THEN settle ELSE { "NONE" })
      /\ offPulseInMotion' = IF begin THEN off
                             ELSE offPulseInMotion /\ (~ne \/ ~cr)
      /\ neutralSince' = RunSince(ne, neutralSince, t)
      /\ clutchSince' = RunSince(cr, clutchSince, t)
      /\ deactivatedAt' = IF deact THEN t ELSE deactivatedAt
      /\ UNCHANGED onTimes

\* loop() of src/Auto_Rotational_Idle.ino.  updateFeedbackState() reads
\* millis() itself, right after loop() did: both reads are the cycle's time.
\* After the settle delay the sketch prints feedbackState and reads no pin.
LoopHysteresis(steps, horizon) ==
  /\ strategy = "hysteresis"
  /\ \E v \in FeedbackRawVals, nv \in NeutralRawVals,
        cl \in PinLevels, d \in steps :
       \E fs \in { FilterState(feedbackState, feedbackLowStart, v, clock) } :
           /\ val' = v
           /\ feedbackState' = fs
           /\ feedbackLowStart' =
                FilterLowStart(feedbackState, feedbackLowStart, v, clock)
           /\ offCancelled' =
                FilterCancels(feedbackState, feedbackLowStart, v)
           /\ feedbackStable' = TRUE
           /\ lowSince' = RunSince(feedbackState /\ v < feedbackLowThreshold,
                                   lowSince, clock)
           /\ ControlCycle(clock, fs, TRUE, nv, cl, d, horizon, { "NONE" })
  /\ UNCHANGED << strategy, feedbackActive, feedbackChangeTime,
                  lastFeedback >>

\* loop() of src/unnamed/part_000.  After the settle delay the sketch reads
\* the feedback pin into its local feedbackActive, which it prints; the
\* variable feedbackActive keeps the sample the cycle decided on.
LoopPlain(steps, horizon) ==
  /\ strategy = "plain"
  /\ \E fl \in PinLevels, nv \in NeutralRawVals,
        cl \in PinLevels, d \in steps :
       \E fb \in { FeedbackActiveOf(fl) } :
       \E ct \in { DebounceChangeTime(fb, lastFeedback, feedbackChangeTime,
                                      clock) } :
       \E st \in { DebounceStable(ct, clock) } :
           /\ feedbackActive' = fb
           /\ feedbackChangeTime' = ct
           /\ lastFeedback' = fb
           /\ feedbackStable' = st
           /\ ControlCycle(clock, fb, st, nv, cl, d, horizon, PinLevels)
  /\ UNCHANGED << strategy, val, feedbackState, feedbackLowStart,
                  offCancelled, lowSince >>

Next == LoopHysteresis(Steps, MaxNow) \/ LoopPlain(Steps, MaxNow)

Spec == Init /\ [][Next]_vars

NextLong ==
  LoopHysteresis(LongSteps, LongMaxNow) \/ LoopPlain(LongSteps, LongMaxNow)

SpecLong == Init /\ [][NextLong]_vars

NextFine ==
  LoopHysteresis(FineSteps, FineMaxNow) \/ LoopPlain(FineSteps, FineMaxNow)

SpecFine == Init /\ [][NextFine]_vars

NextPulse ==
  \/ LoopHysteresis(PulseSteps, PulseMaxNow)
  \/ LoopPlain(PulseSteps, PulseMaxNow)

SpecPulse == Init /\ [][NextPulse]_vars

\* The feedback boolean the flashed sketch decided on in the last cycle.
Feedback == IF strategy = "hysteresis" THEN feedbackState ELSE feedbackActive

\* --------------------------------------------------------------------------
\* The oscillation guard on its own (loop(), "Track ON triggers for
\* auto-deactivation"): the guard starts empty in an active system and sees
\* the trigger decision isOn of a cycle at time t.
NextGuardWith(isOn, t) ==
  \E deact \in { GuardDeactivates(isOn, triggerOnCount, firstTriggerOnTime,
                                  t) } :
      /\ triggerOnCount' =
           GuardCount(isOn, triggerOnCount, firstTriggerOnTime, t)
      /\ firstTriggerOnTime' =
           GuardFirst(isOn, triggerOnCount, firstTriggerOnTime, t)
      /\ ignoreManualUntil' = LockoutUntil(deact, ignoreManualUntil, t)
      /\ systemActive' = IF deact THEN FALSE ELSE systemActive
      /\ shouldDeactivate' = deact
      /\ deactivatedAt' = IF deact THEN t ELSE deactivatedAt
      /\ isTriggerOn' = isOn
      /\ triggerSwitch' = isOn
      /\ now' = t
      /\ clock' = t + loopDelayMs
      /\ onTimes' = IF isOn THEN Append(onTimes, t) ELSE onTimes

GuardStep ==
  /\ systemActive
  /\ Len(onTimes) < 3
  /\ \E t \in GuardTimes, isOn \in BOOLEAN :
       /\ t >= clock
       /\ NextGuardWith(isOn, t)
  /\ UNCHANGED << strategy, isPressing, pressStartMs, feedbackLowStart,
                  feedbackState, feedbackChangeTime, lastFeedback,
                  lastManualFeedback, wasNeutral, neutralStartMs,
                  wasClutchReleased, clutchStartMs, defrostOut, val,
                  feedbackActive, feedbackStable, neutralEngaged,
                  clutchReleased, neutralHeldLongEnough,
                  clutchHeldLongEnough, manualEdge, offCancelled,
                  settleRead, offPulseInMotion, neutralSince, clutchSince,
                  lowSince >>

InitGuard ==
  /\ strategy \in { "hysteresis", "plain" }
  /\ Boot(TRUE)

SpecGuard == InitGuard /\ [][GuardStep]_vars

\* ================================================================== claims

\* C1: neutralHeldLongEnough (clutchHeldLongEnough) is true in a cycle only
\* if the condition was sampled true in that cycle and in every cycle since
\* one at least neutralHoldMs (clutchHoldMs) earlier; a cycle that samples
\* the condition false has heldLongEnough false and clears the hold timer.
C1_HeldOnlyAfterUnbrokenHold ==
  /\ neutralHeldLongEnough =>
       /\ neutralEngaged
       /\ neutralSince # None
       /\ now - neutralSince >= neutralHoldMs
  /\ clutchHeldLongEnough =>
       /\ clutchReleased
       /\ clutchSince # None
       /\ now - clutchSince >= clutchHoldMs
  /\ ~neutralEngaged =>
       ~neutralHeldLongEnough /\ ~wasNeutral /\ neutralSince = None
  /\ ~clutchReleased =>
       ~clutchHeldLongEnough /\ ~wasClutchReleased /\ clutchSince = None

\* Both holds complete exactly at their thresholds, the clutch hold after an
\* earlier released run was interrupted.
C1_Witness ==
  /\ neutralHeldLongEnough /\ now - neutralSince = neutralHoldMs
  /\ clutchHeldLongEnough /\ now - clutchSince = clutchHoldMs
  /\ clutchSince > 0

\* C2: from the empty guard, the third of three consecutive ON-intents at
\* 0 <= t1 < t2 < t3 signals deactivation when t3 - t1 <= deactivateWindowMs
\* (0, 1000, 3500); when t3 - t1 > deactivateWindowMs (0, 1000, 4500) it
\* starts a new window instead (count 1, anchored at t3) and nothing is
\* deactivated.  The second case is read as in its example, with the second
\* ON-intent counted in the window of the first.
C2_ThirdOnIntentDecides ==
  (Len(onTimes) = 3 /\ isTriggerOn) =>
    IF onTimes[3] - onTimes[1] <= deactivateWindowMs
      THEN shouldDeactivate
      ELSE onTimes[2] - onTimes[1] <= deactivateWindowMs =>
             /\ ~shouldDeactivate
             /\ triggerOnCount = 1
             /\ firstTriggerOnTime = onTimes[3]

\* The guard decides as C2 says whenever the first ON-intent is not recorded
\* at time 0, the value firstTriggerOnTime holds for "no window".
C2_AwayFromTimeZero ==
  (Len(onTimes) >= 1 /\ onTimes[1] > 0) => C2_ThirdOnIntentDecides

\* C3: while the system is INACTIVE, a rising edge of the feedback (false in
\* the previous cycle, true in this one) observed at now <= lockoutUntil
\* leaves it inactive, and one observed at now > lockoutUntil activates it
\* in that same cycle.
C3_ManualPressAndLockout ==
  [][ (~systemActive /\ ~lastManualFeedback /\ Feedback') =>
        IF now' <= ignoreManualUntil
          THEN ~systemActive'
          ELSE systemActive' ]_vars

\* A press ignored on the last millisecond of a lockout the guard armed.
C3_Witness ==
  /\ manualEdge /\ ~systemActive
  /\ deactivatedAt # None
  /\ now = ignoreManualUntil

\* C4: after the guard deactivates the system in the cycle at time t, the
\* system is inactive at the end of every cycle up to t + manualLockoutMs,
\* whatever is sampled.
C4_InactiveThroughLockout ==
  (deactivatedAt # None /\ now >= deactivatedAt
     /\ now <= deactivatedAt + manualLockoutMs)
    => ~systemActive

\* A manual press arrives inside the lockout and the system stays inactive.
C4_Witness ==
  /\ deactivatedAt # None
  /\ now > deactivatedAt
  /\ now < deactivatedAt + manualLockoutMs
  /\ manualEdge
  /\ ~systemActive

\* A press in flight keeps the output HIGH and its start time until the first
\* cycle pressDurationMs or more after its start, which drives the output LOW.
PulseRunsItsCourse ==
  isPressing =>
    /\ defrostOut = "HIGH"
    /\ IF now' - pressStartMs < pressDurationMs
         THEN /\ isPressing'
              /\ pressStartMs' = pressStartMs
              /\ defrostOut' = "HIGH"
         ELSE /\ ~isPressing'
              /\ defrostOut' = "LOW"

\* C5: once a pulse begins at t (output HIGH, pressStartMs = t) the output
\* stays HIGH and pressStartMs unchanged in every later cycle with
\* now - t < pressDurationMs, whatever the inputs and the guard do, and the
\* output is driven LOW in the first cycle with now - t >= pressDurationMs.
C5_PulseIntegrity ==
  [][ /\ (~isPressing /\ isPressing') =>
           (pressStartMs' = now' /\ defrostOut' = "HIGH")
      /\ PulseRunsItsCourse ]_vars

\* A press that was held over an intermediate cycle has just ended.
C5_Witness ==
  /\ ~isPressing /\ defrostOut = "LOW"
  /\ pressStartMs > 0
  /\ now - pressStartMs = pressDurationMs

\* C6: the filtered feedback leaves ON only on a low sample that ends an
\* unbroken run of low samples lasting feedbackOffDelayMs or more, and a
\* sample at or above the low threshold keeps ON and clears the pending OFF
\* timer.
C6_SpikeImmunity ==
  [][ (strategy = "hysteresis" /\ feedbackState) =>
        /\ ~feedbackState' =>
             /\ val' < feedbackLowThreshold
             /\ lowSince' # None
             /\ now' - lowSince' >= feedbackOffDelayMs
        /\ val' >= feedbackLowThreshold =>
             (feedbackState' /\ feedbackLowStart' = 0) ]_vars

\* A dip was cancelled by a recovering sample and the state is still ON.
C6_Witness ==
  /\ strategy = "hysteresis"
  /\ offCancelled /\ feedbackState
  /\ feedbackLowStart = 0

\* C7: while the filtered feedback is OFF, a raw sample above
\* feedbackHighThreshold turns it ON in that very call, and a sample in
\* [feedbackLowThreshold, feedbackHighThreshold] leaves it OFF.
C7_FastOn ==
  [][ (strategy = "hysteresis" /\ ~feedbackState) =>
        /\ val' > feedbackHighThreshold => feedbackState'
        /\ (val' >= feedbackLowThreshold /\ val' <= feedbackHighThreshold)
             => ~feedbackState' ]_vars

\* The filtered feedback rose in a cycle later than the first.
C7_Witness ==
  /\ strategy = "hysteresis"
  /\ manualEdge /\ feedbackState
  /\ val > feedbackHighThreshold
  /\ now > 0

\* C8: system active, no pulse in flight, guard empty, feedback OFF and
\* stable, neutral sampled engaged for neutralHoldMs and clutch sampled
\* released for clutchHoldMs: an ON pulse begins in that cycle (output HIGH)
\* and then runs its course (HIGH for pressDurationMs, then LOW).
C8_OnPulseFires ==
  [][ /\ ( /\ systemActive /\ ~isPressing
           /\ triggerOnCount = 0 /\ firstTriggerOnTime = 0
           /\ ~Feedback' /\ feedbackStable'
           /\ neutralSince' # None
           /\ now' - neutralSince' >= neutralHoldMs
           /\ clutchSince' # None
           /\ now' - clutchSince' >= clutchHoldMs )
         => /\ isTriggerOn'
            /\ isPressing' /\ pressStartMs' = now'
            /\ defrostOut' = "HIGH"
      /\ PulseRunsItsCourse ]_vars

\* The first ON pulse has run its course.
C8_Witness ==
  /\ triggerOnCount = 1
  /\ firstTriggerOnTime = pressStartMs
  /\ ~isPressing /\ defrostOut = "LOW"
  /\ now - pressStartMs >= pressDurationMs

\* C9: system active, no pulse in flight, feedback ON and stable, clutch not
\* released or neutral not engaged: an OFF pulse begins in that cycle,
\* whatever the hold timers hold.
C9_OffPulseFires ==
  [][ ( /\ ~isPressing /\ systemActive'
        /\ Feedback' /\ feedbackStable'
        /\ (~neutralEngaged' \/ ~clutchReleased') )
      => /\ triggerSwitch' /\ ~isTriggerOn'
         /\ isPressing' /\ pressStartMs' = now'
         /\ defrostOut' = "HIGH" ]_vars

\* An OFF pulse began with neutral engaged and only the clutch pressed.
C9_Witness ==
  /\ triggerSwitch /\ ~isTriggerOn
  /\ isPressing /\ pressStartMs = now
  /\ neutralEngaged /\ ~clutchReleased

\* The cycle read the inputs of the cycle before it.
SameInputs ==
  /\ val' = val
  /\ feedbackActive' = feedbackActive
  /\ neutralEngaged' = neutralEngaged
  /\ clutchReleased' = clutchReleased

ControllerUnchanged ==
  UNCHANGED << systemActive, isPressing, triggerOnCount, firstTriggerOnTime,
               ignoreManualUntil, feedbackState, feedbackActive, defrostOut >>

\* C10 as claimed: from a state with the system active, no pulse in flight
\* and no intent raised, a cycle that reads the same inputs drives no output
\* and changes no controller state.
C10_AsClaimed ==
  [][ (systemActive /\ ~isPressing /\ ~triggerSwitch /\ SameInputs)
        => ControllerUnchanged ]_vars

\* C10 amended: ... as long as the re-run cycle raises no intent either and
\* the hysteresis filter does not confirm OFF in it (the hold timers, the
\* stability window and the pending OFF timer keep running with the clock).
C10_IdleCycleIsIdempotent ==
  [][ ( /\ systemActive /\ ~isPressing /\ ~triggerSwitch /\ SameInputs
        /\ ~triggerSwitch'
        /\ ~(strategy = "hysteresis" /\ feedbackState /\ ~feedbackState') )
      => ControllerUnchanged ]_vars

\* An active system that never pressed has re-read unchanged inputs.
C10_Witness ==
  /\ strategy = "plain"
  /\ systemActive /\ ~isPressing /\ ~triggerSwitch
  /\ pressStartMs = 0 /\ deactivatedAt = None
  /\ ~feedbackActive /\ now - feedbackChangeTime >= 2 * Tick
  /\ neutralSince # None /\ now - neutralSince >= 2 * Tick
  /\ clutchSince # None /\ now - clutchSince >= 2 * Tick

\* C11: a cycle raises at most one trigger decision.  The ON-intent is
\* raised only on feedback OFF and the OFF-intent only on feedback ON, so the
\* two never coincide; either is raised only with no pulse in flight at the
\* start of the cycle and with the system active when the decision is taken
\* (active before the cycle, or activated by its manual press); and a pulse
\* begins only in a cycle that raised one of them.
C11_AtMostOneDecision ==
  [][ /\ isTriggerOn' => (triggerSwitch' /\ ~Feedback')
      /\ (triggerSwitch' /\ ~isTriggerOn') => Feedback'
      /\ triggerSwitch' =>
           /\ ~isPressing
           /\ systemActive \/ (manualEdge' /\ now' > ignoreManualUntil)
      /\ (~isPressing /\ isPressing') => triggerSwitch' ]_vars

\* A cycle inside a pulse whose inputs call for an ON pulse raised nothing.
C11_Witness ==
  /\ isPressing /\ now > pressStartMs
  /\ systemActive /\ ~Feedback /\ feedbackStable
  /\ neutralHeldLongEnough /\ clutchHeldLongEnough
  /\ ~triggerSwitch /\ ~isTriggerOn

\* C12: at the end of the cycle at time t in which the guard deactivates the
\* system, systemActive is false, ignoreManualUntil = t + manualLockoutMs,
\* the guard is empty (count 0, window start 0) and the ON-intent that
\* caused it began no pulse: the output was not driven HIGH.
C12_DeactivationCycle ==
  shouldDeactivate =>
    /\ isTriggerOn /\ triggerSwitch
    /\ ~systemActive
    /\ ignoreManualUntil = now + manualLockoutMs
    /\ triggerOnCount = 0 /\ firstTriggerOnTime = 0
    /\ ~isPressing /\ defrostOut = "LOW"

\* The third ON-intent in the window deactivated the system after two
\* completed pulses.
C12_Witness ==
  /\ shouldDeactivate /\ isTriggerOn
  /\ deactivatedAt = now
  /\ pressStartMs > 0 /\ pressStartMs < now

\* C13: the cycle that completes a pulse reads the feedback after the settle
\* delay and makes that read the recorded feedback state: the value the
\* manual-press detector and the stability gate compare the next sample
\* with is the value read, and when the read differs from the sample the
\* cycle started with, the last-change time is the time of this cycle.
C13_SettleReadIsGroundTruth ==
  [][ (isPressing /\ ~isPressing') =>
        /\ settleRead' \in PinLevels
        /\ lastManualFeedback' = FeedbackActiveOf(settleRead')
        /\ strategy = "plain" =>
             /\ lastFeedback' = FeedbackActiveOf(settleRead')
             /\ FeedbackActiveOf(settleRead') # lastFeedback =>
                  feedbackChangeTime' = now' ]_vars

\* C14: at every cycle boundary a pulse in flight implies an active system,
\* and the guard never deactivates the system while the output is HIGH:
\* the deactivating cycle starts and ends with no pulse in flight and the
\* output LOW.
C14_PressingImpliesActive ==
  [][ /\ isPressing' => systemActive'
      /\ shouldDeactivate' =>
           /\ ~isPressing /\ defrostOut = "LOW"
           /\ ~isPressing' /\ defrostOut' = "LOW" ]_vars

\* A pulse is in flight in an active system that the guard had deactivated
\* before and a manual press re-activated.
C14_Witness ==
  /\ isPressing /\ systemActive /\ defrostOut = "HIGH"
  /\ deactivatedAt # None /\ now > ignoreManualUntil

\* C15: at every cycle boundary the guard's window start is set exactly when
\* its count is at least 1, the count is 0, 1 or 2, and each ON-intent
\* counted in the current window (the last triggerOnCount recorded ones)
\* occurred no earlier than the window start and no later than
\* deactivateWindowMs after it.
C15_GuardInvariant ==
  /\ (firstTriggerOnTime # 0) <=> (triggerOnCount >= 1)
  /\ triggerOnCount >= 0 /\ triggerOnCount <= 2
  /\ \A i \in 1..Len(onTimes) :
       i > Len(onTimes) - triggerOnCount =>
         /\ onTimes[i] >= firstTriggerOnTime
         /\ onTimes[i] <= firstTriggerOnTime + deactivateWindowMs

\* The guard keeps the invariant of C15 as long as no ON-intent is recorded
\* at time 0, the value firstTriggerOnTime holds for "no window".
C15_AwayFromTimeZero ==
  (\A i \in 1..Len(onTimes) : onTimes[i] > 0) => C15_GuardInvariant

\* C16: in the plain sketch a cycle taken fewer than feedbackStableMs after
\* the last change of the recorded feedback raises no trigger decision and
\* begins no pulse; feedbackChangeTime is set to the cycle's time in the
\* cycles whose sample flips the recorded feedback and is left alone in
\* every other cycle.
C16_StabilityGate ==
  [][ strategy = "plain" =>
        /\ now' - feedbackChangeTime' < feedbackStableMs =>
             /\ ~triggerSwitch' /\ ~isTriggerOn'
             /\ ~(~isPressing /\ isPressing')
        /\ IF lastFeedback' # lastFeedback
             THEN feedbackChangeTime' = now'
             ELSE feedbackChangeTime' = feedbackChangeTime ]_vars

\* One cycle after the feedback rose, still inside the stability window, an
\* active system in motion raised no OFF-intent.
C16_Witness ==
  /\ strategy = "plain"
  /\ systemActive /\ ~isPressing
  /\ feedbackActive /\ ~clutchReleased
  /\ now > feedbackChangeTime
  /\ now - feedbackChangeTime < feedbackStableMs
  /\ ~feedbackStable /\ ~triggerSwitch

\* C17: in the plain sketch, while the system is inactive and the lockout
\* is over (now > ignoreManualUntil), a cycle that samples the feedback true
\* after a cycle that sampled it false activates the system, although that
\* cycle is inside the stability window and raises no trigger decision.
C17_ManualEdgeIgnoresStability ==
  [][ ( /\ strategy = "plain"
        /\ ~systemActive
        /\ ~lastManualFeedback /\ feedbackActive'
        /\ now' > ignoreManualUntil )
      => /\ systemActive'
         /\ ~feedbackStable' /\ ~triggerSwitch' ]_vars

\* The feedback was sampled high in the second cycle only, and the system is
\* active in the third.
C17_Witness ==
  /\ strategy = "plain"
  /\ systemActive
  /\ now = 2 * FineTick
  /\ ~feedbackActive /\ feedbackChangeTime = now

\* C18: a cycle that sees the feedback rise (false in the previous cycle,
\* true in this one) at now <= ignoreManualUntil leaves systemActive,
\* ignoreManualUntil and the guard (count and window start) as they were;
\* and ignoreManualUntil changes only in a cycle in which the guard
\* deactivates the system.
C18_IgnoredPressChangesNothing ==
  [][ /\ (~lastManualFeedback /\ Feedback' /\ now' <= ignoreManualUntil)
           => UNCHANGED << systemActive, ignoreManualUntil, triggerOnCount,
                           firstTriggerOnTime >>
      /\ ignoreManualUntil' # ignoreManualUntil => shouldDeactivate' ]_vars

\* The feedback rose inside the lockout and is still high a cycle later: the
\* system is inactive and the lockout ends when the deactivation said.
C18_Witness ==
  /\ deactivatedAt # None
  /\ now > deactivatedAt /\ now <= ignoreManualUntil
  /\ lastManualFeedback /\ ~manualEdge
  /\ ~systemActive
  /\ ignoreManualUntil = deactivatedAt + manualLockoutMs
  /\ triggerOnCount = 0 /\ firstTriggerOnTime = 0

\* C19: in the hysteresis sketch one motion event gives one OFF pulse.  Once
\* an OFF pulse has completed, with the vehicle sampled in motion in every
\* cycle since the pulse began and the raw feedback sampled below
\* feedbackLowThreshold in every cycle since one strictly inside the press,
\* no cycle begins another pulse.
C19_OneOffPulsePerMotionEvent ==
  [][ ( /\ strategy = "hysteresis"
        /\ ~isPressing
        /\ offPulseInMotion
        /\ ~neutralEngaged' \/ ~clutchReleased'
        /\ val' < feedbackLowThreshold
        /\ lowSince' # None
        /\ lowSince' > pressStartMs
        /\ lowSince' < pressStartMs + pressDurationMs )
      => ~isPressing' ]_vars

\* C20: at every cycle boundary, from setup() on, the output line is HIGH
\* exactly when a press is in flight, and it is LOW whenever the system is
\* inactive.
C20_OutputMirrorsPressing ==
  /\ (defrostOut = "HIGH") <=> isPressing
  /\ ~systemActive => defrostOut = "LOW"

\* The system the guard deactivated after two pulses sits inactive with the
\* output LOW, no manual press seen since.
C20_Witness ==
  /\ ~systemActive /\ defrostOut = "LOW" /\ ~isPressing
  /\ deactivatedAt # None /\ now > deactivatedAt
  /\ ~lastManualFeedback
  /\ pressStartMs > 0

====
